---- MODULE Spec2Model ----
(***************************************************************************)
(* Model of the fibext crate (src/src/lib.rs): the UnsignedInteger trait,  *)
(* its implementations for u8..u128 and BigUint, and the Fibonacci         *)
(* iterator under its two build-time overflow policies.                    *)
(*                                                                         *)
(* Values of an element type are little-endian sequences of 8-bit limbs:   *)
(* a fixed-width type of w bits has exactly w/8 limbs, a BigUint has no    *)
(* high zero limb (zero is the empty sequence).  Addition is ripple-carry  *)
(* over the limbs, so that every width up to u128 keeps its exact range.   *)
(***************************************************************************)
EXTENDS Integers, Sequences, FiniteSets, TLC

VARIABLES ty, policy, fib, hist, alt, add

vars == <<ty, policy, fib, hist, alt, add>>

\* Number of pulls made on one generator in a behaviour.
MaxPulls == 258

----------------------------------------------------------------------------
(* Element types and build-time features *)

Base == 2 ^ 8

FixedWidth == {"u8", "u16", "u32", "u64", "u128"}

Types == FixedWidth \cup {"BigUint"}

Policies == {"checked", "wrapping"}

BITS(t) ==
    CASE t = "u8" -> 8
      [] t = "u16" -> 16
      [] t = "u32" -> 32
      [] t = "u64" -> 64
      [] t = "u128" -> 128

Limbs(t) == BITS(t) \div 8

----------------------------------------------------------------------------
(* Option and Result *)

None == [tag |-> "None"]

Some(v) == [tag |-> "Some", value |-> v]

Ok(v) == [tag |-> "Ok", value |-> v]

Err(e) == [tag |-> "Err", error |-> e]

Overflow == "Overflow"

IsSome(o) == o.tag = "Some"

IsNone(o) == o.tag = "None"

ok_or(o, e) == IF IsSome(o) THEN Ok(o.value) ELSE Err(e)

----------------------------------------------------------------------------
(* Limb arithmetic *)

Max(x, y) == IF x >= y THEN x ELSE y

Min(x, y) == IF x <= y THEN x ELSE y

pad(v, n) == [i \in 1..n |-> IF i <= Len(v) THEN v[i] ELSE 0]

RECURSIVE norm(_)
norm(v) ==
    IF v = <<>> THEN <<>>
    ELSE IF v[Len(v)] = 0 THEN norm(SubSeq(v, 1, Len(v) - 1))
    ELSE v

\* Ripple-carry sum of two equally long limb sequences; the result has one
\* more limb than the operands, the last one being the carry out.
RECURSIVE add_limbs(_, _, _)
add_limbs(a, b, c) ==
    IF a = <<>> THEN <<c>>
    ELSE LET s == Head(a) + Head(b) + c
         IN  <<s % Base>> \o add_limbs(Tail(a), Tail(b), s \div Base)

overflowing_add(a, b) ==
    LET r == add_limbs(a, b, 0)
    IN  [sum |-> SubSeq(r, 1, Len(a)), carry |-> r[Len(a) + 1] = 1]

\* checked_add that clamps to the maximum instead of reporting overflow
checked_add_saturates(a, b) ==
    LET r == overflowing_add(a, b)
    IN  IF r.carry THEN Some([i \in 1..Len(a) |-> Base - 1]) ELSE Some(r.sum)

checked_add(a, b) ==
    LET r == overflowing_add(a, b)
    IN  IF r.carry THEN None ELSE Some(r.sum)

wrapping_add(a, b) == overflowing_add(a, b).sum

\* BigUint + BigUint
big_add(a, b) ==
    LET n == Max(Len(a), Len(b))
    IN  norm(add_limbs(pad(a, n), pad(b, n), 0))

----------------------------------------------------------------------------
(* trait UnsignedInteger *)

zero(t) == IF t = "BigUint" THEN <<>> ELSE [i \in 1..Limbs(t) |-> 0]

one(t) ==
    IF t = "BigUint" THEN <<1>>
    ELSE [i \in 1..Limbs(t) |-> IF i = 1 THEN 1 ELSE 0]

\* safe_add that wraps instead of reporting overflow
safe_add_wraps(t, self, rhs) ==
    IF t = "BigUint" THEN Ok(big_add(self, rhs))
    ELSE Ok(wrapping_add(self, rhs))

safe_add(t, self, rhs) ==
    IF t = "BigUint" THEN Ok(big_add(self, rhs))
    ELSE ok_or(checked_add(self, rhs), Overflow)

unchecked_add(t, self, rhs) ==
    IF t = "BigUint" THEN big_add(self, rhs)
    ELSE wrapping_add(self, rhs)

----------------------------------------------------------------------------
(* struct Fibonacci *)

Fibonacci_new(t) == [current |-> zero(t), next |-> one(t)]

\* a Default that seeds (1, 1)
Fibonacci_default_ones(t) == [current |-> one(t), next |-> one(t)]

Fibonacci_default(t) == Fibonacci_new(t)

\* emits the new current instead of the old one
next_checked_emits_next(t, self) ==
    LET r == safe_add(t, self.current, self.next)
    IN  IF r.tag = "Err" THEN [self |-> self, ret |-> None]
        ELSE [self |-> [current |-> self.next, next |-> r.value],
              ret  |-> Some(self.next)]

\* restarts from the seed after reporting exhaustion
next_checked_restarts(t, self) ==
    LET r == safe_add(t, self.current, self.next)
    IN  IF r.tag = "Err" THEN [self |-> Fibonacci_new(t), ret |-> None]
        ELSE [self |-> [current |-> self.next, next |-> r.value],
              ret  |-> Some(self.current)]

\* shifts current before the overflow test returns
next_checked_shifts(t, self) ==
    LET r == safe_add(t, self.current, self.next)
    IN  IF r.tag = "Err"
        THEN [self |-> [self EXCEPT !.current = self.next], ret |-> None]
        ELSE [self |-> [current |-> self.next, next |-> r.value],
              ret  |-> Some(self.current)]

\* Iterator::next with feature "checked-overflow"
next_checked(t, self) ==
    LET r == safe_add(t, self.current, self.next)
    IN  IF r.tag = "Err" THEN [self |-> self, ret |-> None]
        ELSE [self |-> [current |-> self.next, next |-> r.value],
              ret  |-> Some(self.current)]

\* a wrapping branch that stops when the sum does not fit
next_wrapping_stops(t, self) ==
    LET current == self.current
        s1 == [self EXCEPT !.current = self.next]
        s2 == [s1 EXCEPT !.next = unchecked_add(t, s1.current, s1.next)]
    IN  IF t # "BigUint" /\ overflowing_add(s1.current, s1.next).carry
        THEN [self |-> self, ret |-> None]
        ELSE [self |-> s2, ret |-> Some(current)]

\* Iterator::next without "checked-overflow", with "std": `current` is
\* overwritten before the sum is taken, so both operands are the old `next`.
next_wrapping(t, self) ==
    LET current == self.current
        s1 == [self EXCEPT !.current = self.next]
        s2 == [s1 EXCEPT !.next = unchecked_add(t, s1.current, s1.next)]
    IN  [self |-> s2, ret |-> Some(current)]

next(p, t, self) ==
    IF p = "checked" THEN next_checked(t, self) ELSE next_wrapping(t, self)

----------------------------------------------------------------------------
(* One generator built by Fibonacci::new() and pulled repeatedly *)

NoAlt == [ctor |-> "none", policy |-> "none", fib |-> <<>>, hist |-> <<>>]

NoAdd == [lhs |-> <<>>, rhs |-> <<>>, out |-> <<>>]

Init ==
    /\ ty \in Types
    /\ policy \in Policies
    /\ fib = Fibonacci_new(ty)
    /\ hist = <<>>
    /\ alt = NoAlt
    /\ add = NoAdd

NextChecked ==
    /\ policy = "checked"
    /\ Len(hist) < MaxPulls
    /\ LET r == next("checked", ty, fib)
       IN  /\ fib' = r.self
           /\ hist' = Append(hist, r.ret)
    /\ UNCHANGED <<ty, policy, alt, add>>

NextWrapping ==
    /\ policy = "wrapping"
    /\ Len(hist) < MaxPulls
    /\ LET r == next("wrapping", ty, fib)
       IN  /\ fib' = r.self
           /\ hist' = Append(hist, r.ret)
    /\ UNCHANGED <<ty, policy, alt, add>>

Next == NextChecked \/ NextWrapping

Spec == Init /\ [][Next]_vars

----------------------------------------------------------------------------
(* Two generators of the same element type pulled in step: `fib` built by  *)
(* Fibonacci::new(), `alt` built by new() or Default::default(), each      *)
(* under its own build policy.                                             *)

InitPair ==
    /\ ty \in Types
    /\ policy \in Policies
    /\ fib = Fibonacci_new(ty)
    /\ hist = <<>>
    /\ \E c \in {"new", "default"} : \E q \in Policies :
         alt = [ctor |-> c, policy |-> q,
                fib |-> IF c = "new" THEN Fibonacci_new(ty)
                        ELSE Fibonacci_default(ty),
                hist |-> <<>>]
    /\ add = NoAdd

NextPair ==
    /\ Len(hist) < MaxPulls
    /\ LET r == next(policy, ty, fib)
           q == next(alt.policy, ty, alt.fib)
       IN  /\ fib' = r.self
           /\ hist' = Append(hist, r.ret)
           /\ alt' = [alt EXCEPT !.fib = q.self,
                                 !.hist = Append(alt.hist, q.ret)]
    /\ UNCHANGED <<ty, policy, add>>

SpecPair == InitPair /\ [][NextPair]_vars

----------------------------------------------------------------------------
(* safe_add applied to a pair of operands of a fixed-width type *)

Edge == {0, 1, 128, 255}

Samples(t) ==
    IF t = "u8" THEN {<<x>> : x \in 0..(Base - 1)}
    ELSE {[i \in 1..Limbs(t) |-> IF i = 1 THEN lo
                                  ELSE IF i = Limbs(t) THEN hi ELSE mid] :
             lo \in Edge, mid \in {0, 255}, hi \in Edge}

InitAdd ==
    /\ ty \in FixedWidth
    /\ policy = "checked"
    /\ fib = Fibonacci_new(ty)
    /\ hist = <<>>
    /\ alt = NoAlt
    /\ \E a \in Samples(ty) : \E b \in Samples(ty) :
         add = [lhs |-> a, rhs |-> b, out |-> <<>>]

SafeAdd ==
    /\ add.out = <<>>
    /\ add' = [add EXCEPT !.out = <<safe_add(ty, add.lhs, add.rhs)>>]
    /\ UNCHANGED <<ty, policy, fib, hist, alt>>

SpecAdd == InitAdd /\ [][SafeAdd]_vars

----------------------------------------------------------------------------
(* Mathematical reading of values: a natural number is its limb sequence   *)
(* without high zero limbs.                                                *)

MathSum(a, b) == big_add(norm(a), norm(b))

Fits(t, n) == t = "BigUint" \/ Len(norm(n)) <= Limbs(t)

\* n reduced modulo 2^BITS(t), as a value of the fixed-width type t
ModW(t, n) == pad(SubSeq(n, 1, Min(Len(n), Limbs(t))), Limbs(t))

\* Integer value of a limb sequence (used for the widths TLC's integers hold)
RECURSIVE IntVal(_)
IntVal(v) == IF v = <<>> THEN 0 ELSE Head(v) + Base * IntVal(Tail(v))

\* The value n of type u8
U8(n) == <<n>>

AllSome(h) == \A i \in 1..Len(h) : IsSome(h[i])

----------------------------------------------------------------------------
(* C1: under the checked policy, for every fixed-width type, every pull that
   returns a value returns the exact Fibonacci number of its position: the
   first pull returns 0, the second 1, and from the third on the returned
   value is the exact (unwrapped) sum of the two values returned before it. *)
C1_CheckedFibonacci ==
    (policy = "checked" /\ ty \in FixedWidth) =>
        \A i \in 1..Len(hist) :
            IsSome(hist[i]) =>
                /\ i = 1 => hist[i].value = zero(ty)
                /\ i = 2 => hist[i].value = one(ty)
                /\ i >= 3 =>
                    /\ IsSome(hist[i-1]) /\ IsSome(hist[i-2])
                    /\ norm(hist[i].value)
                         = MathSum(hist[i-1].value, hist[i-2].value)
                    /\ BITS(ty) <= 16 =>
                         IntVal(hist[i].value)
                           = IntVal(hist[i-1].value) + IntVal(hist[i-2].value)

C1_Witness ==
    /\ policy = "checked" /\ ty = "u128"
    /\ Len(hist) >= 100 /\ IsSome(hist[100])

(* C2: under the wrapping policy each pull emits the old current and sets
   current to the old next and next to wrapping_add(old current, old next);
   the emitted sequence is Fibonacci modulo 2^bitwidth: 0, 1, and from the
   third on term[n] = (term[n-1] + term[n-2]) mod 2^bitwidth. *)
C2_WrappingFibonacci ==
    (policy = "wrapping" /\ ty \in FixedWidth) =>
        \A i \in 1..Len(hist) :
            /\ IsSome(hist[i])
            /\ i = 1 => hist[i].value = zero(ty)
            /\ i = 2 => hist[i].value = one(ty)
            /\ i >= 3 =>
                 hist[i].value
                   = ModW(ty, MathSum(hist[i-1].value, hist[i-2].value))

(* C3 as stated: checked policy, u8: each of the first 255 pulls returns a
   value, the 256th pull and every later pull signal exhaustion. *)
C3_Original ==
    (policy = "checked" /\ ty = "u8") =>
        \A i \in 1..Len(hist) :
            /\ i <= 255 => IsSome(hist[i])
            /\ i >= 256 => IsNone(hist[i])

(* C3 amended: checked policy, u8: each of the first 12 pulls returns a
   value, the 13th pull signals exhaustion, and so does every later pull
   (the 256th included). *)
C3_Amended ==
    (policy = "checked" /\ ty = "u8") =>
        \A i \in 1..Len(hist) :
            /\ i <= 12 => IsSome(hist[i])
            /\ i >= 13 => IsNone(hist[i])

C3_Witness ==
    /\ policy = "checked" /\ ty = "u8"
    /\ Len(hist) >= 257 /\ IsNone(hist[256]) /\ IsNone(hist[257])

(* C4: under the checked policy exhaustion is permanent: once a pull has
   returned None every later pull returns None; for u8 the pull made after
   255 earlier pulls returns None. *)
C4_ExhaustionPermanent ==
    policy = "checked" =>
        /\ \A i \in 1..Len(hist) : \A j \in i..Len(hist) :
               IsNone(hist[i]) => IsNone(hist[j])
        /\ (ty = "u8" /\ Len(hist) >= 256) => IsNone(hist[256])

C4_Witness ==
    /\ policy = "checked" /\ ty = "u16"
    /\ Len(hist) >= 30
    /\ \E i \in 1..Len(hist) : IsNone(hist[i]) /\ i + 5 <= Len(hist)

C6_BigUintPoliciesAgree ==
    (ty = "BigUint" /\ alt.ctor = "new") =>
        /\ AllSome(hist)
        /\ AllSome(alt.hist)
        /\ (policy = "checked" /\ alt.policy = "wrapping") => hist = alt.hist

(* C7: for every fixed-width type of width w, safe_add(a, b) is Ok(a + b)
   exactly when a + b <= 2^w - 1 and Err(Overflow) otherwise; for u8,
   safe_add(1, 1) = Ok(2) and safe_add(255, 1) = Err(Overflow). *)
C7_SafeAdd ==
    add.out # <<>> =>
        LET r == add.out[1]
            s == MathSum(add.lhs, add.rhs)
        IN  /\ IF Fits(ty, s)
               THEN r.tag = "Ok" /\ r.value = pad(s, Limbs(ty))
               ELSE r.tag = "Err" /\ r.error = Overflow
            /\ BITS(ty) <= 16 =>
                 LET n == IntVal(add.lhs) + IntVal(add.rhs)
                 IN  IF n <= 2 ^ BITS(ty) - 1
                     THEN r.tag = "Ok" /\ IntVal(r.value) = n
                     ELSE r.tag = "Err"
            /\ (ty = "u8" /\ add.lhs = U8(1) /\ add.rhs = U8(1))
                 => (r.tag = "Ok" /\ r.value = U8(2))
            /\ (ty = "u8" /\ add.lhs = U8(255) /\ add.rhs = U8(1))
                 => (r.tag = "Err" /\ r.error = Overflow)

C7_Witness ==
    /\ ty = "u128"
    /\ add.out # <<>>
    /\ add.out[1].tag = "Err"
    /\ add.lhs[1] = 1 /\ add.lhs[Limbs(ty)] = 255

(* C8: Fibonacci::new() yields current = 0 and next = 1, Default::default()
   yields the same state, and a default-constructed generator returns the
   same result as an explicitly constructed one on every pull. *)
C8_DefaultIsNew ==
    /\ Len(hist) = 0 =>
         /\ Len(fib.current) = (IF ty = "BigUint" THEN 0 ELSE Limbs(ty))
         /\ IntVal(fib.current) = 0
         /\ Len(fib.next) = (IF ty = "BigUint" THEN 1 ELSE Limbs(ty))
         /\ IntVal(fib.next) = 1
    /\ (alt.ctor = "default" /\ alt.policy = policy) =>
         /\ alt.fib = fib
         /\ alt.hist = hist

C8_Witness ==
    /\ alt.ctor = "default" /\ alt.policy = policy
    /\ Len(hist) >= 20 /\ Len(alt.hist) >= 20

(* C9: under the wrapping policy with u8 the emitted values keep cycling:
   the generator never reaches a state from which every further pull returns
   the same value (a state that a pull leaves unchanged). *)
C9_WrappingKeepsCycling ==
    (policy = "wrapping" /\ ty = "u8") =>
        next("wrapping", ty, fib).self # fib

(* C10: under the checked policy a pull signals exhaustion as soon as
   current + next is not representable, before emitting current and without
   modifying the state, so the two largest representable Fibonacci numbers
   stay in the state and are never emitted.  For u8 exactly the 12 values
   0 1 1 2 3 5 8 13 21 34 55 89 are emitted, the 13th pull signals
   exhaustion and the state stays (144, 233) on every later pull. *)
C10_StopsBeforeEmitting ==
    (policy = "checked" /\ ty \in FixedWidth) =>
        /\ Len(hist) > 0 =>
             LET last == hist[Len(hist)]
             IN  IF IsNone(last)
                 THEN ~Fits(ty, MathSum(fib.current, fib.next))
                 ELSE /\ Fits(ty, MathSum(last.value, fib.current))
                      /\ norm(fib.next) = MathSum(last.value, fib.current)
        /\ (\E i \in 1..Len(hist) : IsNone(hist[i])) =>
             /\ ~Fits(ty, MathSum(fib.current, fib.next))
             /\ \A i \in 1..Len(hist) :
                  IsSome(hist[i]) =>
                    /\ hist[i].value # fib.current
                    /\ hist[i].value # fib.next
        /\ ty = "u8" =>
             LET emitted == <<0, 1, 1, 2, 3, 5, 8, 13, 21, 34, 55, 89>>
             IN  /\ \A i \in 1..Len(hist) :
                       IF i <= 12 THEN hist[i] = Some(U8(emitted[i]))
                       ELSE hist[i] = None
                 /\ Len(hist) >= 12 =>
                       fib = [current |-> U8(144), next |-> U8(233)]

C10_Witness ==
    /\ policy = "checked" /\ ty = "u8"
    /\ Len(hist) >= 20
    /\ IsNone(hist[13])
    /\ fib.current = U8(144)

====
